---- MODULE Spec2Model ----
(***************************************************************************)
(* Session object of libgearman (libgearman/state.c): the connection list, *)
(* the option flags, the polling buffer and the error record, with the     *)
(* operations gearman_set_option, gearman_flush_all, gearman_wait,         *)
(* gearman_ready, gearman_echo, gearman_state_clone and gearman_state_free.*)
(*                                                                         *)
(* A session is a record shaped like gearman_state_st; every C function is *)
(* an operator from the session (and the environment's answers: realloc,   *)
(* poll, the connection engine, the log sink) to the session afterwards    *)
(* and the value returned.  The actions apply one whole call each.         *)
(***************************************************************************)
EXTENDS Integers, Sequences, FiniteSets, TLC

VARIABLES
  session, \* the session under test (a gearman_state_st)
  errno,   \* the C library's errno of the calling thread
  dst,     \* the session gearman_state_clone last produced, or NULL
  call,    \* the last call made by the caller: its name, inputs and result
  client   \* the locals of main in examples/reverse_client_epoch.cc

vars == <<session, errno, dst, call, client>>

----------------------------------------------------------------------------
(* Bounds of the model *)

MaxCons == 2      \* connections a session holds at most
MaxEintr == 2     \* EINTR results in a row that one gearman_wait sees at most
MaxExcess == 100  \* characters by which a message exceeds the error buffer at most
MaxPackets == 2   \* packets the caller has created in a session at most
MaxStatusCalls == 3  \* calls of gearman_client_job_status the client makes at most

----------------------------------------------------------------------------
(* Values *)

NULL == "NULL"

GEARMAN_SUCCESS == "GEARMAN_SUCCESS"
GEARMAN_IO_WAIT == "GEARMAN_IO_WAIT"
GEARMAN_ERRNO == "GEARMAN_ERRNO"
GEARMAN_TIMEOUT == "GEARMAN_TIMEOUT"
GEARMAN_NO_ACTIVE_FDS == "GEARMAN_NO_ACTIVE_FDS"
GEARMAN_LOST_CONNECTION == "GEARMAN_LOST_CONNECTION"
GEARMAN_MEMORY_ALLOCATION_FAILURE == "GEARMAN_MEMORY_ALLOCATION_FAILURE"
GEARMAN_INVALID_COMMAND == "GEARMAN_INVALID_COMMAND"
GEARMAN_ECHO_DATA_CORRUPTION == "GEARMAN_ECHO_DATA_CORRUPTION"

\* gearman_options_t, and one value outside the enumeration
GEARMAN_NON_BLOCKING == "GEARMAN_NON_BLOCKING"
GEARMAN_DONT_TRACK_PACKETS == "GEARMAN_DONT_TRACK_PACKETS"
GEARMAN_MAX == "GEARMAN_MAX"
OptionValues ==
  {GEARMAN_NON_BLOCKING, GEARMAN_DONT_TRACK_PACKETS, GEARMAN_MAX, "out_of_range"}

\* bits of a poll event mask; a mask is the set of its bits, 0 is {}
POLLIN == "POLLIN"
POLLOUT == "POLLOUT"
POLLHUP == "POLLHUP"
EventMasks == SUBSET {POLLIN, POLLOUT}

\* error numbers; ERRNO_ZERO is the value 0
ERRNO_ZERO == "0"
EINTR == "EINTR"
ENOMEM == "ENOMEM"
EAGAIN == "EAGAIN"

\* session timeouts in milliseconds; a negative timeout is infinite
Timeouts == {-1, 50}

\* size of last_error and of the formatting buffer
GEARMAN_MAX_ERROR_SIZE == 1024

\* gearman_verbose_t
GEARMAN_VERBOSE_FATAL == "GEARMAN_VERBOSE_FATAL"

----------------------------------------------------------------------------
(* Sequences *)

Min(a, b) == IF a < b THEN a ELSE b

Prefix(s, n) == SubSeq(s, 1, Min(n, Len(s)))

Remove(s, i) == SubSeq(s, 1, i - 1) \o SubSeq(s, i + 1, Len(s))

\* n copies of the string s, one after the other
RECURSIVE Repeat(_, _)
Repeat(s, n) ==
  IF n = 0 THEN ""
  ELSE LET half == Repeat(s, n \div 2) IN
       IF n % 2 = 0 THEN half \o half ELSE half \o half \o s

----------------------------------------------------------------------------
(* Session: creation and options *)

\* gearman_add_options(state, option): switches one option on
gearman_add_options(state, option) ==
  CASE option = GEARMAN_NON_BLOCKING ->
         [state EXCEPT !.options.non_blocking = TRUE]
    [] option = GEARMAN_DONT_TRACK_PACKETS ->
         [state EXCEPT !.options.dont_track_packets = TRUE]
    [] OTHER -> state

\* the loop over the GEARMAN_MAX-terminated option array
RECURSIVE AddOptions(_, _)
AddOptions(state, options) ==
  IF options = <<>> \/ Head(options) = GEARMAN_MAX
    THEN state
    ELSE AddOptions(gearman_add_options(state, Head(options)), Tail(options))

\* the fields gearman_state_create sets, before the options are applied
StateDefaults(allocated) ==
  [options |-> [allocated |-> allocated,
                dont_track_packets |-> FALSE,
                non_blocking |-> FALSE,
                stored_non_blocking |-> FALSE],
   verbose |-> 0,
   con_count |-> 0,
   packet_count |-> 0,
   pfds_size |-> 0,
   sending |-> 0,
   last_errno |-> ERRNO_ZERO,
   timeout |-> -1,
   con_list |-> <<>>,
   packet_list |-> <<>>,
   pfds |-> NULL,
   log_fn |-> NULL,
   last_error |-> ""]

\* gearman_state_create with con_count left as the memory held it
CreateStaleCount(allocated, options) ==
  AddOptions([StateDefaults(allocated) EXCEPT !.con_count = 1], options)

\* gearman_state_create(state, options); allocated = (state == NULL) on entry
gearman_state_create(allocated, options) ==
  AddOptions(StateDefaults(allocated), options)

\* gearman_set_option without the break after the first case: NON_BLOCKING
\* falls through into DONT_TRACK_PACKETS
SetOptionFallsThrough(state, option, value) ==
  CASE option = GEARMAN_NON_BLOCKING ->
         [state |-> [state EXCEPT !.options.non_blocking = value,
                                  !.options.dont_track_packets = value],
          ret |-> GEARMAN_SUCCESS]
    [] option = GEARMAN_DONT_TRACK_PACKETS ->
         [state |-> [state EXCEPT !.options.dont_track_packets = value],
          ret |-> GEARMAN_SUCCESS]
    [] OTHER ->
         [state |-> state, ret |-> GEARMAN_INVALID_COMMAND]

\* gearman_set_option(state, option, value)
gearman_set_option(state, option, value) ==
  CASE option = GEARMAN_NON_BLOCKING ->
         [state |-> [state EXCEPT !.options.non_blocking = value],
          ret |-> GEARMAN_SUCCESS]
    [] option = GEARMAN_DONT_TRACK_PACKETS ->
         [state |-> [state EXCEPT !.options.dont_track_packets = value],
          ret |-> GEARMAN_SUCCESS]
    [] OTHER ->
         [state |-> state, ret |-> GEARMAN_INVALID_COMMAND]

\* gearman_set_timeout(state, timeout)
gearman_set_timeout(state, timeout) == [state EXCEPT !.timeout = timeout]

\* gearman_set_log_fn(state, function, context, verbose)
gearman_set_log_fn(state, function, verbose) ==
  [state EXCEPT !.log_fn = function, !.verbose = verbose]

----------------------------------------------------------------------------
(* Error recording *)

\* the byte 0 that ends a C string, written as a character no message holds
NUL == "$"

\* the content of a byte that was never written
INDETERMINATE == "?"

\* memcpy(dest, src, n): the n bytes copied; src is an array of which only
\* the first Len(src) bytes were written
Memcpy(src, n) ==
  IF n <= Len(src) THEN SubSeq(src, 1, n)
  ELSE src \o Repeat(INDETERMINATE, n - Len(src))

\* the C string an array of bytes holds: the characters before the first NUL
\* (all of them when there is none)
CString(bytes) ==
  LET at == {i \in 1..Len(bytes) : SubSeq(bytes, i, i) = NUL} IN
  IF at = {} THEN bytes
  ELSE SubSeq(bytes, 1, (CHOOSE i \in at : \A j \in at : i <= j) - 1)

\* vsnprintf(ptr, n, format, ...), n > 0, message the expansion of format:
\* at most n - 1 characters are written, then a NUL; the value returned is
\* the length of the whole expansion
vsnprintf(n, message) ==
  [written |-> Prefix(message, n - 1) \o NUL, ret |-> Len(message)]

\* gearman_state_set_error with a size that was never computed
SetErrorSizeZero(size) == 0

\* gearman_state_set_error copying as many bytes as the message would take
SetErrorSizeUnclamped(size) == size

\* gearman_state_set_error: the number of characters copied to last_error
SetErrorSize(size) ==
  IF size >= GEARMAN_MAX_ERROR_SIZE THEN GEARMAN_MAX_ERROR_SIZE - 1 ELSE size

\* gearman_state_set_error(state, function, format, ...): message is the
\* expansion of format.  errno_in is errno on entry; sink_errno is <<e>>
\* when the body of the log sink leaves e in errno, <<>> when it leaves
\* errno alone.
\* Gives the session, the deliveries to the log sink, errno afterwards and
\* the bytes copied to last_error.
gearman_state_set_error(state, function, message, errno_in, sink_errno) ==
  LET prefix == Len(function) + 1
      v == vsnprintf(GEARMAN_MAX_ERROR_SIZE - prefix, message)
      log_buffer == function \o ":" \o v.written
      size == prefix + v.ret
  IN IF state.log_fn = NULL
       THEN
         LET copied == Memcpy(log_buffer, SetErrorSize(size) + 1)
         IN [state |-> [state EXCEPT !.last_error = CString(copied)],
             log |-> <<>>,
             errno |-> errno_in,
             copied |-> copied]
       ELSE [state |-> state,
             log |-> <<[message |-> CString(log_buffer),
                        verbose |-> GEARMAN_VERBOSE_FATAL]>>,
             errno |-> IF sink_errno = <<>> THEN errno_in ELSE sink_errno[1],
             copied |-> ""]

----------------------------------------------------------------------------
(* Connection engine: the calls of libgearman/connection.c the session     *)
(* makes.  A connection is [id, events, ready]; id stands for the object   *)
(* and for its socket descriptor (con->fd).                                *)

\* the smallest id no connection of the list carries
FreshId(con_list) ==
  CHOOSE i \in 1..(Len(con_list) + 1) :
    /\ \A k \in 1..Len(con_list) : con_list[k].id # i
    /\ \A j \in 1..(i - 1) : \E k \in 1..Len(con_list) : con_list[k].id = j

\* gearman_connection_create via add_server: a new connection, linked at
\* the head of con_list, con_count incremented
gearman_connection_create(state) ==
  [state EXCEPT
     !.con_list = <<[id |-> FreshId(state.con_list),
                     events |-> {},
                     ready |-> FALSE]>> \o state.con_list,
     !.con_count = state.con_count + 1]

\* gearman_connection_free(con), con the i-th of the list: unlinked,
\* con_count decremented
gearman_connection_free(state, i) ==
  [state EXCEPT !.con_list = Remove(state.con_list, i),
                !.con_count = state.con_count - 1]

\* gearman_connection_clone(state, NULL, from): a new connection of state
\* with the endpoint of from
gearman_connection_clone(state, from) == gearman_connection_create(state)

\* gearman_connection_set_events(con, events): the engine asks for events
gearman_connection_set_events(con, events) ==
  [con EXCEPT !.events = con.events \cup events]

\* gearman_connection_set_revents(con, revents): any returned event marks
\* the connection ready; the events that arrived are no longer waited for
gearman_connection_set_revents(con, revents) ==
  [con |-> [con EXCEPT !.ready = IF revents # {} THEN TRUE ELSE con.ready,
                       !.events = con.events \ revents],
   ret |-> GEARMAN_SUCCESS]

\* gearman_connection_flush(con); result is what the socket allowed: a
\* write that would block asks for POLLOUT and gives IO_WAIT
gearman_connection_flush(con, result) ==
  [con |-> IF result = GEARMAN_IO_WAIT
             THEN gearman_connection_set_events(con, {POLLOUT})
             ELSE con,
   ret |-> result]

FlushResults == {GEARMAN_SUCCESS, GEARMAN_IO_WAIT, GEARMAN_LOST_CONNECTION}

\* gearman_state_pop_non_blocking(state)
gearman_state_pop_non_blocking(state) ==
  [state EXCEPT !.options.non_blocking = state.options.stored_non_blocking]

----------------------------------------------------------------------------
(* Session: connections *)

\* gearman_free_all_cons leaving the list as it is
FreeAllConsSkips(state) == FALSE

\* gearman_free_all_cons: the test of the loop
FreeAllConsContinues(state) == state.con_list # <<>>

\* gearman_free_all_cons(state)
RECURSIVE gearman_free_all_cons(_)
gearman_free_all_cons(state) ==
  IF FreeAllConsContinues(state)
    THEN gearman_free_all_cons(gearman_connection_free(state, 1))
    ELSE state

\* gearman_flush_all: the test that passes over a connection
FlushSkips(con) == POLLOUT \in con.events

\* the test of gearman_flush_all without its IO_WAIT half
FlushFailsOnWait(ret) == ret # GEARMAN_SUCCESS

\* gearman_flush_all: the test that ends the loop with a flush result
FlushFails(ret) == ret # GEARMAN_SUCCESS /\ ret # GEARMAN_IO_WAIT

\* the loop of gearman_flush_all from the i-th connection on; results[id]
\* is what the socket of connection id allows; flushed lists the ids on
\* which gearman_connection_flush was called so far
RECURSIVE FlushLoop(_, _, _, _)
FlushLoop(state, i, results, flushed) ==
  IF i > Len(state.con_list)
    THEN [state |-> state, ret |-> GEARMAN_SUCCESS, flushed |-> flushed]
    ELSE
      LET con == state.con_list[i] IN
      IF FlushSkips(con)
        THEN FlushLoop(state, i + 1, results, flushed)
        ELSE
          LET r == gearman_connection_flush(con, results[con.id])
              after == [state EXCEPT !.con_list[i] = r.con]
          IN IF FlushFails(r.ret)
               THEN [state |-> after, ret |-> r.ret,
                     flushed |-> Append(flushed, con.id)]
               ELSE FlushLoop(after, i + 1, results, Append(flushed, con.id))

\* gearman_flush_all(state)
gearman_flush_all(state, results) == FlushLoop(state, 1, results, <<>>)

\* the scan of gearman_ready going on past a ready connection: the last
\* ready connection wins
RECURSIVE ReadyScanLast(_, _)
ReadyScanLast(con_list, i) ==
  IF i > Len(con_list) THEN 0
  ELSE IF ReadyScanLast(con_list, i + 1) # 0
    THEN ReadyScanLast(con_list, i + 1)
  ELSE IF con_list[i].ready THEN i
  ELSE 0

\* gearman_ready: the position of the first ready connection, 0 for none
RECURSIVE ReadyScan(_, _)
ReadyScan(con_list, i) ==
  IF i > Len(con_list) THEN 0
  ELSE IF con_list[i].ready THEN i
  ELSE ReadyScan(con_list, i + 1)

\* gearman_ready(state): con is the position in con_list of the connection
\* returned, 0 for NULL
gearman_ready(state) ==
  LET i == ReadyScan(state.con_list, 1) IN
  IF i = 0
    THEN [state |-> state, con |-> 0]
    ELSE [state |-> [state EXCEPT !.con_list[i].ready = FALSE], con |-> i]

----------------------------------------------------------------------------
(* Session: gearman_wait *)

\* poll(pfds, x, timeout) as the operating system answers it: -1 with an
\* error number; 0 when the timeout passes with no descriptor ready, which a
\* negative (infinite) timeout never does; or the number of entries with a
\* non-empty revents, each revents within the entry's events and POLLHUP.
\* poll is not called with x = 0 here.
PollRevents(pfds) ==
  {rv \in [1..Len(pfds) -> SUBSET {POLLIN, POLLOUT, POLLHUP}] :
     \A i \in 1..Len(pfds) : rv[i] \subseteq pfds[i].events \cup {POLLHUP}}

NoRevents(pfds) == [i \in 1..Len(pfds) |-> {}]

PollAnswers(pfds, timeout) ==
  {[ret |-> -1, errno |-> e, revents |-> NoRevents(pfds)] :
     e \in {EINTR, ENOMEM}}
  \cup {[ret |-> 0, errno |-> ERRNO_ZERO, revents |-> NoRevents(pfds)] :
          t \in {timeout} \cap Nat}
  \cup {[ret |-> Cardinality({i \in 1..Len(pfds) : rv[i] # {}}),
          errno |-> ERRNO_ZERO,
          revents |-> rv] :
          rv \in PollRevents(pfds) \ {NoRevents(pfds)}}

\* gearman_wait never growing the polling buffer
WaitGrowsNever(state) == FALSE

\* gearman_wait growing the polling buffer on every call
WaitGrowsAlways(state) == TRUE

\* gearman_wait: the test that grows the polling buffer
WaitGrows(state) == state.pfds_size < state.con_count

\* the growth of gearman_wait with its assignment turned round: con_count
\* is set from pfds_size
WaitGrowSwapped(state) ==
  [state EXCEPT !.pfds = "pfds", !.con_count = state.pfds_size]

\* gearman_wait: the polling buffer after a realloc that succeeded
WaitGrow(state) ==
  [state EXCEPT !.pfds = "pfds", !.pfds_size = state.con_count]

\* gearman_wait polling every connection, whatever its events
WaitSkipsNone(con) == FALSE

\* gearman_wait: the test that leaves a connection out of the poll
WaitSkips(con) == con.events = {}

\* gearman_wait, the first loop: one entry per connection that waits for
\* something, in list order
RECURSIVE WaitCollect(_, _)
WaitCollect(con_list, pfds) ==
  IF con_list = <<>> THEN pfds
  ELSE IF WaitSkips(Head(con_list)) THEN WaitCollect(Tail(con_list), pfds)
  ELSE WaitCollect(Tail(con_list),
                   Append(pfds, [fd |-> Head(con_list).id,
                                 events |-> Head(con_list).events,
                                 revents |-> {}]))

\* gearman_wait without the test for EINTR: every -1 is an error
WaitPollStepNoRetry(p) == IF p.ret = -1 THEN "errno" ELSE "break"

\* gearman_wait: what is done with one result of poll
WaitPollStep(p) ==
  IF p.ret = -1
    THEN IF p.errno = EINTR THEN "continue" ELSE "errno"
    ELSE "break"

\* gearman_wait, the poll loop: answers are the results of the successive
\* calls of poll, all on the same entries; gives the result that ends the
\* loop and the number of calls made
RECURSIVE WaitPoll(_, _)
WaitPoll(answers, calls) ==
  IF WaitPollStep(Head(answers)) = "continue"
    THEN WaitPoll(Tail(answers), calls + 1)
    ELSE [p |-> Head(answers), calls |-> calls + 1]

\* gearman_wait without the test for a timeout
WaitTimedOutNever(ret) == FALSE

\* gearman_wait: the test for a timeout after the poll loop
WaitTimedOut(ret) == ret = 0

\* the second loop of gearman_wait without its x++: every connection is
\* handed the revents of the same entry
RECURSIVE WaitDispatchNoAdvance(_, _, _, _)
WaitDispatchNoAdvance(con_list, i, pfds, x) ==
  IF i > Len(con_list)
    THEN [con_list |-> con_list, ret |-> GEARMAN_SUCCESS]
    ELSE IF WaitSkips(con_list[i])
      THEN WaitDispatchNoAdvance(con_list, i + 1, pfds, x)
      ELSE
        LET r == gearman_connection_set_revents(con_list[i],
                                                pfds[x + 1].revents)
        IN WaitDispatchNoAdvance([con_list EXCEPT ![i] = r.con], i + 1,
                                 pfds, x)

\* gearman_wait, the second loop, from the i-th connection on, x entries
\* handed out so far
RECURSIVE WaitDispatch(_, _, _, _)
WaitDispatch(con_list, i, pfds, x) ==
  IF i > Len(con_list)
    THEN [con_list |-> con_list, ret |-> GEARMAN_SUCCESS]
    ELSE IF WaitSkips(con_list[i])
      THEN WaitDispatch(con_list, i + 1, pfds, x)
      ELSE
        LET r == gearman_connection_set_revents(con_list[i],
                                                pfds[x + 1].revents)
            after == [con_list EXCEPT ![i] = r.con]
        IN IF r.ret # GEARMAN_SUCCESS
             THEN [con_list |-> after, ret |-> r.ret]
             ELSE WaitDispatch(after, i + 1, pfds, x + 1)

\* gearman_wait(state).  realloc_ok: realloc succeeds when called; answers:
\* what the calls of poll return; errno_in: errno on entry; sink_errno: see
\* gearman_state_set_error.  The contents of the polling buffer are dead
\* between calls (every entry read was written by the same call), so the
\* session keeps only the pointer and the capacity; pfds in the result is
\* the entries the call wrote, as poll left them, x their number and polls
\* the number of calls of poll.
gearman_wait(state, realloc_ok, answers, errno_in, sink_errno) ==
  IF WaitGrows(state) /\ ~realloc_ok
    THEN
      LET e == gearman_state_set_error(state, "gearman_wait", "realloc",
                                       ENOMEM, sink_errno)
      IN [state |-> e.state, ret |-> GEARMAN_MEMORY_ALLOCATION_FAILURE,
          errno |-> e.errno, pfds |-> <<>>, x |-> 0, polls |-> 0,
          p |-> <<>>, log |-> e.log,
          realloc |-> <<FALSE>>]
    ELSE
      LET grown == IF WaitGrows(state) THEN WaitGrow(state) ELSE state
          called == IF WaitGrows(state) THEN <<TRUE>> ELSE <<>>
          pfds == WaitCollect(grown.con_list, <<>>)
          x == Len(pfds)
      IN
      IF x = 0
        THEN
          LET e == gearman_state_set_error(grown, "gearman_wait",
                     "no active file descriptors", errno_in, sink_errno)
          IN [state |-> e.state, ret |-> GEARMAN_NO_ACTIVE_FDS,
              errno |-> e.errno, pfds |-> pfds, x |-> x, polls |-> 0,
              p |-> <<>>, log |-> e.log,
              realloc |-> called]
        ELSE
          LET w == WaitPoll(answers, 0)
              polled == [k \in 1..x |->
                           [pfds[k] EXCEPT !.revents = w.p.revents[k]]]
              errno_poll == IF w.p.ret = -1 THEN w.p.errno
                            ELSE IF w.calls > 1 THEN EINTR
                            ELSE errno_in
          IN
          IF WaitPollStep(w.p) = "errno"
            THEN
              LET e == gearman_state_set_error(grown, "gearman_wait",
                         "poll:" \o errno_poll, errno_poll, sink_errno)
              IN [state |-> [e.state EXCEPT !.last_errno = e.errno],
                  ret |-> GEARMAN_ERRNO,
                  errno |-> e.errno, pfds |-> polled, x |-> x,
                  polls |-> w.calls, p |-> <<w.p>>, log |-> e.log,
                  realloc |-> called]
          ELSE IF WaitTimedOut(w.p.ret)
            THEN
              LET e == gearman_state_set_error(grown, "gearman_wait",
                         "timeout reached", errno_poll, sink_errno)
              IN [state |-> e.state, ret |-> GEARMAN_TIMEOUT,
                  errno |-> e.errno, pfds |-> polled, x |-> x,
                  polls |-> w.calls, p |-> <<w.p>>, log |-> e.log,
                  realloc |-> called]
          ELSE
            LET d == WaitDispatch(grown.con_list, 1, polled, 0)
            IN [state |-> [grown EXCEPT !.con_list = d.con_list],
                ret |-> d.ret,
                errno |-> errno_poll, pfds |-> polled, x |-> x,
                polls |-> w.calls, p |-> <<w.p>>, log |-> <<>>,
                realloc |-> called]

----------------------------------------------------------------------------
(* Packets of the session (libgearman/packet.c).  A packet is named by a   *)
(* number: 0 is the request of gearman_echo, the others are the caller's.  *)

\* the local variable packet of gearman_echo
EchoPacket == 0

\* gearman_packet_create: the packet is linked at the head of packet_list
\* unless the session does not track packets
gearman_packet_create(state, packet) ==
  IF state.options.dont_track_packets THEN state
  ELSE [state EXCEPT !.packet_list = <<packet>> \o state.packet_list,
                     !.packet_count = state.packet_count + 1]

\* gearman_packet_free(packet): a packet the session tracks is unlinked
\* from packet_list
gearman_packet_free(state, packet) ==
  IF \A k \in 1..Len(state.packet_list) : state.packet_list[k] # packet
    THEN state
    ELSE [state EXCEPT
            !.packet_list = SelectSeq(state.packet_list,
                                      LAMBDA q : q # packet),
            !.packet_count = state.packet_count - 1]

\* gearman_free_all_packets: the test of the loop
FreeAllPacketsContinues(state) == state.packet_list # <<>>

\* gearman_free_all_packets(state)
RECURSIVE gearman_free_all_packets(_)
gearman_free_all_packets(state) ==
  IF FreeAllPacketsContinues(state)
    THEN gearman_free_all_packets(
           gearman_packet_free(state, Head(state.packet_list)))
    ELSE state

----------------------------------------------------------------------------
(* Session: gearman_echo *)

\* gearman_state_push_blocking that does not store the mode it replaces
PushBlockingNoStore(state) ==
  [state EXCEPT !.options.non_blocking = FALSE]

\* gearman_state_push_blocking(state)
gearman_state_push_blocking(state) ==
  [state EXCEPT !.options.stored_non_blocking = state.options.non_blocking,
                !.options.non_blocking = FALSE]

\* the comparison of gearman_echo without the memcmp: sizes only
EchoCorruptSizeOnly(workload, data) == Len(data) # Len(workload)

\* gearman_echo: the comparison of a response with the workload
EchoCorrupt(workload, data) ==
  \/ Len(data) # Len(workload)
  \/ \E k \in 1..Len(workload) : data[k] # workload[k]

\* the return of gearman_echo without gearman_packet_free(&packet)
EchoLeaveKeepsPacket(state) == gearman_state_pop_non_blocking(state)

\* what gearman_echo does on every return after the packet was created
EchoLeave(state) ==
  gearman_state_pop_non_blocking(gearman_packet_free(state, EchoPacket))

\* the loop of gearman_echo from the i-th connection on.  env.answers[id]
\* is what connection id does: the result of the send, the result of the
\* receive and the payload received.  trace lists the calls made so far.
RECURSIVE EchoLoop(_, _, _, _, _)
EchoLoop(state, i, workload, env, trace) ==
  IF i > Len(state.con_list)
    THEN [state |-> EchoLeave(state), ret |-> GEARMAN_SUCCESS,
          errno |-> env.errno, log |-> <<>>,
          trace |-> trace \o <<<<"free_packet">>, <<"pop_non_blocking">>>>]
    ELSE
      LET con == state.con_list[i]
          a == env.answers[con.id]
          sent == Append(trace, <<"send", con.id, state.options.non_blocking>>)
          received == Append(sent, <<"recv", con.id>>)
      IN
      IF a.send # GEARMAN_SUCCESS
        THEN [state |-> EchoLeave(state), ret |-> a.send,
              errno |-> env.errno, log |-> <<>>,
              trace |-> sent \o <<<<"free_packet">>, <<"pop_non_blocking">>>>]
      ELSE IF a.recv # GEARMAN_SUCCESS
        THEN [state |-> EchoLeave(state), ret |-> a.recv,
              errno |-> env.errno, log |-> <<>>,
              trace |-> received \o <<<<"free_packet">>, <<"pop_non_blocking">>>>]
      ELSE IF EchoCorrupt(workload, a.data)
        THEN
          LET e == gearman_state_set_error(EchoLeave(state), "gearman_echo",
                     "corruption during echo", env.errno, env.sink_errno)
          IN [state |-> e.state, ret |-> GEARMAN_ECHO_DATA_CORRUPTION,
              errno |-> e.errno, log |-> e.log,
              trace |-> received \o <<<<"free_con_packet">>, <<"free_packet">>,
                                      <<"pop_non_blocking">>, <<"set_error">>>>]
      ELSE EchoLoop(state, i + 1, workload, env,
                    Append(received, <<"free_con_packet">>))

\* gearman_echo(state, workload, workload_size).  env.create is the result
\* of gearman_packet_create_args.
gearman_echo(state, workload, env) ==
  IF env.create # GEARMAN_SUCCESS
    THEN [state |-> state, ret |-> env.create, errno |-> env.errno,
          log |-> <<>>, trace |-> <<>>]
    ELSE EchoLoop(gearman_state_push_blocking(
                    gearman_packet_create(state, EchoPacket)),
                  1, workload, env, <<<<"create_packet">>, <<"push_blocking">>>>)

----------------------------------------------------------------------------
(* Session: free and clone *)

\* gearman_state_free(state): what is left of the session; the polling
\* buffer is released
gearman_state_free(state) ==
  [gearman_free_all_packets(gearman_free_all_cons(state))
     EXCEPT !.pfds = NULL]

\* the loop of gearman_state_clone giving up without gearman_state_free:
\* the destination is returned with the connections cloned so far
RECURSIVE CloneLoopKeeps(_, _, _, _)
CloneLoopKeeps(destination, source, i, fail_at) ==
  IF i > Len(source.con_list) \/ i = fail_at
    THEN [ret |-> <<destination>>, freed |-> <<>>]
    ELSE CloneLoopKeeps(gearman_connection_clone(destination,
                                                 source.con_list[i]),
                        source, i + 1, fail_at)

\* the loop of gearman_state_clone over the connections of the source from
\* the i-th on; fail_at is the position of the connection whose clone
\* fails, 0 for none.  ret is <<destination>>, or <<>> for NULL; freed is
\* what gearman_state_free left of a destination given up.
RECURSIVE CloneLoop(_, _, _, _)
CloneLoop(destination, source, i, fail_at) ==
  IF i > Len(source.con_list) THEN [ret |-> <<destination>>, freed |-> <<>>]
  ELSE IF i = fail_at
    THEN [ret |-> <<>>, freed |-> <<gearman_state_free(destination)>>]
  ELSE CloneLoop(gearman_connection_clone(destination, source.con_list[i]),
                 source, i + 1, fail_at)

\* gearman_state_clone(destination, source), source not NULL.  alloc says
\* where the destination comes from: "caller" (destination not NULL),
\* "malloc", or "malloc_fails" (gearman_state_create gives NULL)
gearman_state_clone(alloc, source, fail_at) ==
  IF alloc = "malloc_fails" THEN [ret |-> <<>>, freed |-> <<>>] ELSE
  LET created == gearman_state_create(alloc = "malloc", <<>>)
      nb == gearman_set_option(created, GEARMAN_NON_BLOCKING,
                               source.options.non_blocking).state
      dtp == gearman_set_option(nb, GEARMAN_DONT_TRACK_PACKETS,
                                source.options.dont_track_packets).state
  IN CloneLoop([dtp EXCEPT !.timeout = source.timeout], source, 1, fail_at)

----------------------------------------------------------------------------
(* The status loop of examples/reverse_client_epoch.cc *)

EXIT_SUCCESS == "EXIT_SUCCESS"
EXIT_FAILURE == "EXIT_FAILURE"

\* gearman_continue(ret) and gearman_failed(ret)
gearman_continue(ret) == ret = GEARMAN_IO_WAIT

gearman_failed(ret) == ret # GEARMAN_SUCCESS /\ ret # GEARMAN_IO_WAIT

\* what gearman_client_job_status may return
StatusResults ==
  {GEARMAN_SUCCESS, GEARMAN_IO_WAIT, GEARMAN_TIMEOUT, GEARMAN_LOST_CONNECTION}

\* main on entry to the do loop: exit_code is set, is_known is declared
\* without an initializer (<<>> is a variable never written, <<v>> one that
\* holds v), is_running and ret likewise; calls counts the calls of
\* gearman_client_job_status and printed the status lines written
ClientStart ==
  [pc |-> "job_status", exit_code |-> EXIT_SUCCESS, ret |-> <<>>,
   is_known |-> <<>>, is_running |-> <<>>, calls |-> 0, printed |-> 0]

\* the values a read of the variable v may give: any value when it was never
\* written
ReadBool(v) == IF v = <<>> THEN BOOLEAN ELSE {v[1]}

\* the test at the bottom of the do loop: while (is_known)
ClientLoops(v) == ReadBool(v)

----------------------------------------------------------------------------
(* The caller: one action per call *)

Positions == 1..Len(session.con_list)

\* the value of call after a call whose result no property reads
NoCall == [op |-> "none"]

\* what the body of a registered log sink may do to errno
SinkErrnos == IF session.log_fn = NULL THEN {<<>>} ELSE {<<>>, <<EAGAIN>>}

\* the option arrays the caller creates a session with
CreateOptions ==
  {<<GEARMAN_MAX>>, <<GEARMAN_NON_BLOCKING, GEARMAN_MAX>>,
   <<GEARMAN_DONT_TRACK_PACKETS, GEARMAN_MAX>>}

Init ==
  /\ \E options \in CreateOptions :
       session = gearman_state_create(FALSE, options)
  /\ errno = ERRNO_ZERO
  /\ dst = <<>>
  /\ call = [op |-> "gearman_state_create"]
  /\ client = ClientStart

AddServer ==
  /\ session.con_count < MaxCons
  /\ session' = gearman_connection_create(session)
  /\ call' = NoCall
  /\ UNCHANGED <<errno, dst, client>>

\* the caller adds the only server of the session
AddSoleServer ==
  /\ session.con_list = <<>>
  /\ session' = gearman_connection_create(session)
  /\ call' = NoCall
  /\ UNCHANGED <<errno, dst, client>>

ConnectionFree ==
  \E i \in Positions :
    /\ session' = gearman_connection_free(session, i)
    /\ call' = NoCall
    /\ UNCHANGED <<errno, dst, client>>

\* the caller frees the connection at the head of the list
ConnectionFreeHead ==
  /\ session.con_list # <<>>
  /\ session' = gearman_connection_free(session, 1)
  /\ call' = NoCall
  /\ UNCHANGED <<errno, dst, client>>

FreeAllCons ==
  /\ session' = gearman_free_all_cons(session)
  /\ call' = NoCall
  /\ UNCHANGED <<errno, dst, client>>

SetEvents ==
  \E i \in Positions : \E events \in EventMasks \ {{}} :
    /\ session' = [session EXCEPT !.con_list[i] =
                     gearman_connection_set_events(session.con_list[i], events)]
    /\ call' = NoCall
    /\ UNCHANGED <<errno, dst, client>>

\* the engine of the head connection asks for POLLIN
SetEventsRead ==
  /\ session.con_list # <<>>
  /\ session' = [session EXCEPT !.con_list[1] =
                   gearman_connection_set_events(session.con_list[1], {POLLIN})]
  /\ call' = NoCall
  /\ UNCHANGED <<errno, dst, client>>

SetOption ==
  \E option \in OptionValues : \E value \in BOOLEAN :
    LET r == gearman_set_option(session, option, value) IN
    /\ session' = r.state
    /\ call' = [op |-> "gearman_set_option", option |-> option,
                value |-> value, ret |-> r.ret]
    /\ UNCHANGED <<errno, dst, client>>

SetTimeout ==
  \E timeout \in Timeouts :
    /\ session' = gearman_set_timeout(session, timeout)
    /\ call' = NoCall
    /\ UNCHANGED <<errno, dst, client>>

SetLogFn ==
  \E function \in {NULL, "log_fn"} :
    /\ session' = gearman_set_log_fn(session, function, 0)
    /\ call' = NoCall
    /\ UNCHANGED <<errno, dst, client>>

FlushAll ==
  \E results \in [{session.con_list[k].id : k \in Positions}
                    -> FlushResults] :
    \E r \in {gearman_flush_all(session, results)} :
    /\ session' = r.state
    /\ call' = [op |-> "gearman_flush_all", ret |-> r.ret,
                flushed |-> r.flushed,
                results |-> [k \in 1..Len(r.flushed) |-> results[r.flushed[k]]]]
    /\ UNCHANGED <<errno, dst, client>>

Ready ==
  LET r == gearman_ready(session) IN
  /\ session' = r.state
  /\ call' = [op |-> "gearman_ready", con |-> r.con]
  /\ UNCHANGED <<errno, dst, client>>

\* one call of gearman_wait: poll is interrupted n times, then answers.
\* again: the call before was a gearman_wait that returned TIMEOUT.
Wait ==
  \E realloc_ok \in IF WaitGrows(session) THEN BOOLEAN ELSE {TRUE} :
  \E sink_errno \in SinkErrnos :
    LET pfds == WaitCollect(session.con_list, <<>>)
        interrupted == [ret |-> -1, errno |-> EINTR,
                        revents |-> NoRevents(pfds)]
        polls == realloc_ok /\ pfds # <<>>
    IN
    \E n \in IF polls THEN 0..MaxEintr ELSE {0} :
    \E final \in IF polls
                   THEN PollAnswers(pfds, session.timeout) \ {interrupted}
                   ELSE {interrupted} :
      LET answers == [k \in 1..n |-> interrupted] \o <<final>> IN
      \E r \in {gearman_wait(session, realloc_ok, answers, errno,
                              sink_errno)} :
      /\ session' = r.state
      /\ errno' = r.errno
      /\ call' = [op |-> "gearman_wait", ret |-> r.ret, x |-> r.x,
                  pfds |-> r.pfds, polls |-> r.polls, log |-> r.log,
                  poll |-> [k \in 1..Len(r.p) |->
                              [ret |-> r.p[k].ret, errno |-> r.p[k].errno]],
                  again |-> call.op = "gearman_wait"
                            /\ call.ret = GEARMAN_TIMEOUT,
                  realloc |-> r.realloc,
                  script |-> IF polls
                               THEN <<[eintrs |-> n, ret |-> final.ret,
                                       errno |-> final.errno]>>
                               ELSE <<>>]
      /\ UNCHANGED <<dst, client>>

\* payloads: the workloads echoed, and what a server may send back
Workloads == {<<>>, <<"h">>, <<"h", "i">>}

Responses(workload) ==
  {workload, Append(workload, "x")}
  \cup (IF workload = <<>> THEN {}
        ELSE {Tail(workload), <<"x">> \o Tail(workload)})

\* what one connection may do during gearman_echo
EchoAnswers(workload) ==
  {[send |-> GEARMAN_LOST_CONNECTION, recv |-> GEARMAN_SUCCESS,
    data |-> <<>>]}
  \cup {[send |-> GEARMAN_SUCCESS, recv |-> r, data |-> <<>>] :
          r \in {GEARMAN_LOST_CONNECTION, GEARMAN_TIMEOUT}}
  \cup {[send |-> GEARMAN_SUCCESS, recv |-> GEARMAN_SUCCESS, data |-> d] :
          d \in Responses(workload)}

Echo ==
  \E workload \in Workloads :
  \E create \in {GEARMAN_SUCCESS, GEARMAN_MEMORY_ALLOCATION_FAILURE} :
  \E answers \in [{session.con_list[k].id : k \in Positions}
                    -> IF create = GEARMAN_SUCCESS
                         THEN EchoAnswers(workload)
                         ELSE {CHOOSE a \in EchoAnswers(workload) : TRUE}] :
  \E sink_errno \in SinkErrnos :
  \E r \in {gearman_echo(session, workload,
                          [create |-> create, answers |-> answers,
                           errno |-> errno, sink_errno |-> sink_errno])} :
    LET sends == SelectSeq(r.trace, LAMBDA t : t[1] = "send") IN
    /\ session' = r.state
    /\ errno' = r.errno
    /\ call' = [op |-> "gearman_echo", ret |-> r.ret, workload |-> workload,
                create |-> create, trace |-> r.trace, log |-> r.log,
                answers |-> [k \in 1..Len(sends) |-> answers[sends[k][2]]]]
    /\ UNCHANGED <<dst, client>>

Clone ==
  \E alloc \in {"caller", "malloc", "malloc_fails"} :
  \E fail_at \in 0..Len(session.con_list) :
    LET r == gearman_state_clone(alloc, session, fail_at) IN
    /\ dst' = r.ret
    /\ call' = [op |-> "gearman_state_clone", freed |-> r.freed,
                alloc |-> alloc, fail_at |-> fail_at]
    /\ UNCHANGED <<session, errno, client>>

\* the caller frees the clone
StateFree ==
  /\ dst # <<>>
  /\ dst' = <<>>
  /\ call' = [op |-> "gearman_state_free",
              freed |-> <<gearman_state_free(dst[1])>>]
  /\ UNCHANGED <<session, errno, client>>

----------------------------------------------------------------------------
(* Specifications *)

\* the caller applies the returned events of its own event loop to a
\* connection
SetRevents ==
  \E i \in Positions : \E revents \in SUBSET {POLLIN, POLLOUT, POLLHUP} \ {{}} :
    /\ session' = [session EXCEPT !.con_list[i] =
                     gearman_connection_set_revents(session.con_list[i],
                                                    revents).con]
    /\ call' = NoCall
    /\ UNCHANGED <<errno, dst, client>>

\* the caller creates a packet in the session
PacketCreate ==
  \E packet \in 1..MaxPackets :
    /\ \A k \in 1..Len(session.packet_list) : session.packet_list[k] # packet
    /\ \A smaller \in 1..(packet - 1) :
         \E k \in 1..Len(session.packet_list) :
           session.packet_list[k] = smaller
    /\ session' = gearman_packet_create(session, packet)
    /\ call' = NoCall
    /\ UNCHANGED <<errno, dst, client>>

\* gearman_state_free(session), step by step.  call holds the position in
\* the function (pc), the connections and packets counted on entry and the
\* iterations the two loops have made.
Freeing == call.op = "gearman_state_free_session"

StateFreeEnter ==
  /\ ~Freeing
  /\ call' = [op |-> "gearman_state_free_session", pc |-> "free_all_cons",
              con_count |-> session.con_count,
              packet_count |-> session.packet_count,
              cons |-> 0, packets |-> 0]
  /\ UNCHANGED <<session, errno, dst, client>>

\* gearman_free_all_cons: one test of the loop, and the iteration it allows
FreeAllConsStep ==
  /\ Freeing
  /\ call.pc = "free_all_cons"
  /\ IF FreeAllConsContinues(session)
       THEN /\ session' = gearman_connection_free(session, 1)
            /\ call' = [call EXCEPT !.cons = call.cons + 1]
       ELSE /\ session' = session
            /\ call' = [call EXCEPT !.pc = "free_all_packets"]
  /\ UNCHANGED <<errno, dst, client>>

\* gearman_free_all_packets: one test of the loop, and the iteration it
\* allows
FreeAllPacketsStep ==
  /\ Freeing
  /\ call.pc = "free_all_packets"
  /\ IF FreeAllPacketsContinues(session)
       THEN /\ session' = gearman_packet_free(session,
                                              Head(session.packet_list))
            /\ call' = [call EXCEPT !.packets = call.packets + 1]
       ELSE /\ session' = session
            /\ call' = [call EXCEPT !.pc = "free_pfds"]
  /\ UNCHANGED <<errno, dst, client>>

\* the polling buffer is released and gearman_state_free returns
StateFreeReturn ==
  /\ Freeing
  /\ call.pc = "free_pfds"
  /\ session' = [session EXCEPT !.pfds = NULL]
  /\ call' = [call EXCEPT !.pc = "return"]
  /\ UNCHANGED <<errno, dst, client>>

\* ret= gearman_client_job_status(...): a successful reply writes is_known
\* and is_running; any other result leaves them as they are
ClientJobStatus ==
  /\ client.pc = "job_status"
  /\ client.calls < MaxStatusCalls
  /\ \E ret \in StatusResults : \E known, running \in BOOLEAN :
       client' = [client EXCEPT
                    !.pc = "gearman_continue",
                    !.ret = <<ret>>,
                    !.calls = client.calls + 1,
                    !.is_known = IF ret = GEARMAN_SUCCESS THEN <<known>>
                                 ELSE client.is_known,
                    !.is_running = IF ret = GEARMAN_SUCCESS THEN <<running>>
                                   ELSE client.is_running]
  /\ UNCHANGED <<session, errno, dst, call>>

\* if (gearman_continue(ret)) continue: in a do loop, continue goes to the
\* test at the bottom
ClientContinue ==
  /\ client.pc = "gearman_continue"
  /\ client' = [client EXCEPT !.pc = IF gearman_continue(client.ret[1])
                                       THEN "while" ELSE "gearman_failed"]
  /\ UNCHANGED <<session, errno, dst, call>>

\* else if (gearman_failed(ret)): exit_code= EXIT_FAILURE; break
ClientFailed ==
  /\ client.pc = "gearman_failed"
  /\ client' = IF gearman_failed(client.ret[1])
                 THEN [client EXCEPT !.pc = "return",
                                     !.exit_code = EXIT_FAILURE]
                 ELSE [client EXCEPT !.pc = "print"]
  /\ UNCHANGED <<session, errno, dst, call>>

\* the status line is written
ClientPrint ==
  /\ client.pc = "print"
  /\ client' = [client EXCEPT !.pc = "while",
                              !.printed = client.printed + 1]
  /\ UNCHANGED <<session, errno, dst, call>>

\* while (is_known)
ClientWhile ==
  /\ client.pc = "while"
  /\ \E again \in ClientLoops(client.is_known) :
       client' = [client EXCEPT !.pc = IF again THEN "job_status"
                                       ELSE "return"]
  /\ UNCHANGED <<session, errno, dst, call>>

\* the functions that record errors, and the lengths of their messages:
\* short ones, the ones around the size of the buffer, and a long one
ErrorFunctions == {"gearman_wait", "gearman_echo"}

MessageLengths ==
  {0, 17}
  \cup {GEARMAN_MAX_ERROR_SIZE - k : k \in 13..15}
  \cup {GEARMAN_MAX_ERROR_SIZE + MaxExcess}

\* one call of gearman_state_set_error, with a message of the given length
SetError ==
  \E function \in ErrorFunctions : \E length \in MessageLengths :
  \E fill \in {"a", "b"} : \E sink_errno \in SinkErrnos :
  \E r \in {gearman_state_set_error(session, function, Repeat(fill, length),
                                     errno, sink_errno)} :
    /\ session' = r.state
    /\ errno' = r.errno
    /\ call' = [op |-> "gearman_state_set_error", function |-> function,
                message |-> Repeat(fill, length), log |-> r.log,
                copied |-> r.copied]
    /\ UNCHANGED <<dst, client>>

\* every call
Next ==
  \/ AddServer \/ ConnectionFree \/ FreeAllCons \/ SetEvents
  \/ SetOption \/ SetTimeout \/ SetLogFn
  \/ FlushAll \/ Ready \/ Wait \/ Echo
  \/ Clone \/ StateFree \/ SetRevents \/ SetError \/ PacketCreate
  \/ StateFreeEnter \/ FreeAllConsStep \/ FreeAllPacketsStep
  \/ StateFreeReturn
  \/ ClientJobStatus \/ ClientContinue \/ ClientFailed \/ ClientPrint
  \/ ClientWhile

Spec == Init /\ [][Next]_vars

\* a session created without options, for the calls that do not read them
InitPlain ==
  /\ session = gearman_state_create(FALSE, <<GEARMAN_MAX>>)
  /\ errno = ERRNO_ZERO
  /\ dst = <<>>
  /\ call = [op |-> "gearman_state_create"]
  /\ client = ClientStart

\* waiting with a log sink: what becomes of errno
NextErrno == AddServer \/ SetEventsRead \/ SetLogFn \/ Wait

SpecErrno == InitPlain /\ [][NextErrno]_vars

\* options and echo
NextOptions == AddServer \/ SetOption \/ SetLogFn \/ Echo

SpecOptions == Init /\ [][NextOptions]_vars

\* waiting for events
NextWait ==
  \/ AddServer \/ ConnectionFreeHead \/ SetEvents \/ SetTimeout
  \/ Wait

SpecWait == InitPlain /\ [][NextWait]_vars

\* the connection list: readiness and flushing
NextList ==
  \/ AddServer \/ ConnectionFree \/ SetEvents \/ SetRevents
  \/ Ready \/ FlushAll

SpecList == InitPlain /\ [][NextList]_vars

\* the life of the connection list, and clones
NextClone ==
  \/ AddServer \/ ConnectionFree \/ FreeAllCons \/ SetOption \/ SetTimeout
  \/ Clone \/ StateFree

SpecClone == Init /\ [][NextClone]_vars

\* the errors of gearman_wait and gearman_echo, with and without a log sink
NextDiag ==
  \/ AddSoleServer \/ SetEventsRead \/ SetTimeout \/ SetLogFn
  \/ Wait \/ Echo

SpecDiag == InitPlain /\ [][NextDiag]_vars

\* a session with options, a timeout, connections and packets is cloned
NextCopy ==
  \/ AddServer \/ ConnectionFreeHead \/ SetOption \/ SetTimeout
  \/ PacketCreate \/ Clone

SpecCopy == Init /\ [][NextCopy]_vars

\* a session is built up and then freed; nothing else is called on a
\* session once gearman_state_free has been entered, and a call that was
\* entered goes on to its end
NextFree ==
  \/ ~Freeing /\ (AddServer \/ ConnectionFreeHead \/ PacketCreate \/ SetOption)
  \/ StateFreeEnter \/ FreeAllConsStep \/ FreeAllPacketsStep
  \/ StateFreeReturn

SpecFree ==
  /\ Init
  /\ [][NextFree]_vars
  /\ WF_vars(FreeAllConsStep)
  /\ WF_vars(FreeAllPacketsStep)
  /\ WF_vars(StateFreeReturn)

\* the epoch client polls the status of its job
NextEpoch ==
  \/ ClientJobStatus \/ ClientContinue \/ ClientFailed \/ ClientPrint
  \/ ClientWhile

SpecEpoch == InitPlain /\ [][NextEpoch]_vars

\* recording errors, with and without a log sink
NextError == SetLogFn \/ SetError

SpecError == InitPlain /\ [][NextError]_vars

----------------------------------------------------------------------------
(* Properties *)

Ids(con_list) == [k \in 1..Len(con_list) |-> con_list[k].id]

ReadyPositions(con_list) == {k \in 1..Len(con_list) : con_list[k].ready}

\* C1: whatever way gearman_echo returns (packet creation failed, a send
\* failed, a receive failed, a payload differed, or every connection echoed),
\* non_blocking is afterwards what it was before the call.
C1_EchoRestoresNonBlocking ==
  [][call'.op = "gearman_echo"
       => session'.options.non_blocking = session.options.non_blocking]_vars

\* C1, reached: echo returned on the corruption path of a connection, in a
\* session that is in non-blocking mode
C1_Witness ==
  /\ call.op = "gearman_echo"
  /\ call.ret = GEARMAN_ECHO_DATA_CORRUPTION
  /\ session.options.non_blocking
  /\ Len(call.answers) = 2

\* C9: NON_BLOCKING sets only non_blocking and DONT_TRACK_PACKETS only
\* dont_track_packets, both returning SUCCESS; any other option, GEARMAN_MAX
\* included, returns INVALID_COMMAND and changes nothing.
C9_SetOption ==
  [][call'.op = "gearman_set_option" =>
       LET o == session.options
           o2 == session'.options
       IN
       /\ \A f \in DOMAIN session \ {"options"} : session'[f] = session[f]
       /\ o2.allocated = o.allocated
       /\ o2.stored_non_blocking = o.stored_non_blocking
       /\ call'.option = GEARMAN_NON_BLOCKING =>
            /\ call'.ret = GEARMAN_SUCCESS
            /\ o2.non_blocking = call'.value
            /\ o2.dont_track_packets = o.dont_track_packets
       /\ call'.option = GEARMAN_DONT_TRACK_PACKETS =>
            /\ call'.ret = GEARMAN_SUCCESS
            /\ o2.dont_track_packets = call'.value
            /\ o2.non_blocking = o.non_blocking
       /\ call'.option \notin {GEARMAN_NON_BLOCKING,
                                GEARMAN_DONT_TRACK_PACKETS} =>
            /\ call'.ret = GEARMAN_INVALID_COMMAND
            /\ o2 = o]_vars

\* C9, reached: GEARMAN_MAX was refused in a session with both options on
C9_Witness ==
  /\ call.op = "gearman_set_option"
  /\ call.option = GEARMAN_MAX
  /\ call.value = FALSE
  /\ call.ret = GEARMAN_INVALID_COMMAND
  /\ session.options.non_blocking
  /\ session.options.dont_track_packets

\* C10: in every session, the one under test and every clone, con_count is
\* the number of connections linked in con_list; both are 0 and empty right
\* after gearman_state_create.
C10_ConCount ==
  /\ session.con_count = Len(session.con_list)
  /\ \A k \in 1..Len(dst) : dst[k].con_count = Len(dst[k].con_list)
  /\ call.op \in {"gearman_state_clone", "gearman_state_free"} =>
       \A k \in 1..Len(call.freed) :
         call.freed[k].con_count = Len(call.freed[k].con_list)
  /\ call.op = "gearman_state_create" =>
       session.con_count = 0 /\ session.con_list = <<>>

\* C10, reached: a clone of two connections, and a source that has freed
\* one of its own since
C10_Witness ==
  /\ dst # <<>>
  /\ dst[1].con_count = 2
  /\ session.con_count = 1
  /\ call.op = "none"

\* C7: gearman_ready returns the first connection of the list that is ready
\* and clears the ready flag of that one only; no events mask and no other
\* ready flag changes; with no connection ready it returns NULL and changes
\* nothing.  So each call takes exactly one connection out of the ready ones.
C7_Ready ==
  [][call'.op = "gearman_ready" =>
       LET L == session.con_list
           L2 == session'.con_list
           c == call'.con
       IN
       /\ \A f \in DOMAIN session \ {"con_list"} : session'[f] = session[f]
       /\ Ids(L2) = Ids(L)
       /\ \A k \in 1..Len(L) : L2[k].events = L[k].events
       /\ ReadyPositions(L) = {} => c = 0 /\ L2 = L
       /\ ReadyPositions(L) # {} =>
            /\ c \in ReadyPositions(L)
            /\ \A k \in ReadyPositions(L) : c <= k
            /\ ReadyPositions(L2) = ReadyPositions(L) \ {c}]_vars

\* C7, reached: the head was returned, a later connection is still ready,
\* and the one returned still waits for events
C7_Witness ==
  /\ call.op = "gearman_ready"
  /\ call.con = 1
  /\ ReadyPositions(session.con_list) = {2}
  /\ session.con_list[1].events # {}

\* C8: gearman_flush_all flushes, in list order, the connections whose
\* events do not hold POLLOUT; IO_WAIT counts as SUCCESS; the first other
\* result ends the loop and is returned; else SUCCESS is returned, never
\* IO_WAIT.
C8_FlushAll ==
  [][call'.op = "gearman_flush_all" =>
       LET L == session.con_list
           eligible == Ids(SelectSeq(L, LAMBDA con : POLLOUT \notin con.events))
           flushed == call'.flushed
           results == call'.results
           n == Len(flushed)
           passes(k) == results[k] \in {GEARMAN_SUCCESS, GEARMAN_IO_WAIT}
       IN
       /\ n <= Len(eligible)
       /\ flushed = SubSeq(eligible, 1, n)
       /\ \A k \in 1..(n - 1) : passes(k)
       /\ call'.ret # GEARMAN_IO_WAIT
       /\ IF n > 0 /\ ~passes(n)
            THEN call'.ret = results[n]
            ELSE n = Len(eligible) /\ call'.ret = GEARMAN_SUCCESS]_vars

\* C8, reached: of two connections one was passed over, the other flushed
\* with IO_WAIT, and SUCCESS returned
C8_Witness ==
  /\ call.op = "gearman_flush_all"
  /\ Len(session.con_list) = 2
  /\ Len(call.flushed) = 1
  /\ call.results[1] = GEARMAN_IO_WAIT
  /\ call.ret = GEARMAN_SUCCESS

\* no connection of the list waits for any event
NoEvents(con_list) == \A k \in 1..Len(con_list) : con_list[k].events = {}

\* the connection of the list that carries id
ConOf(con_list, id) ==
  con_list[CHOOSE k \in 1..Len(con_list) : con_list[k].id = id]

\* C2 as stated: with no connection waiting for an event, gearman_wait
\* returns NO_ACTIVE_FDS and does not call poll; so with no connection at
\* all, and with a sole connection whose events are 0.
C2_Original ==
  [][call'.op = "gearman_wait" /\ NoEvents(session.con_list)
       => call'.ret = GEARMAN_NO_ACTIVE_FDS /\ call'.polls = 0]_vars

\* C2, amended: with no connection waiting for an event, gearman_wait does
\* not call poll, and returns NO_ACTIVE_FDS unless it had to grow the
\* polling buffer (pfds_size < con_count) and realloc failed, which returns
\* MEMORY_ALLOCATION_FAILURE first.
C2_NoActiveFds ==
  [][call'.op = "gearman_wait" /\ NoEvents(session.con_list)
       => /\ call'.polls = 0
          /\ call'.ret = IF session.pfds_size < session.con_count
                              /\ call'.realloc = <<FALSE>>
                            THEN GEARMAN_MEMORY_ALLOCATION_FAILURE
                            ELSE GEARMAN_NO_ACTIVE_FDS]_vars

\* C2, reached: NO_ACTIVE_FDS for a session whose sole connection waits for
\* nothing
C2_Witness ==
  /\ call.op = "gearman_wait"
  /\ call.ret = GEARMAN_NO_ACTIVE_FDS
  /\ Len(session.con_list) = 1
  /\ session.con_list[1].events = {}

\* poll of this call reported no ready descriptor: it answered 0
PollTimedOut(c) == c.poll # <<>> /\ c.poll[1].ret = 0

\* no polled socket was found ready in this call
NoSocketReady(c) == \A k \in 1..Len(c.pfds) : c.pfds[k].revents = {}

\* C3 as stated: gearman_wait returns TIMEOUT when poll reports no ready
\* descriptor; and the call that follows a TIMEOUT, with the session left
\* alone in between and no polled socket ready, returns TIMEOUT again.
C3_Original ==
  [][call'.op = "gearman_wait" =>
       /\ PollTimedOut(call') => call'.ret = GEARMAN_TIMEOUT
       /\ (call.op = "gearman_wait" /\ call.ret = GEARMAN_TIMEOUT
             /\ NoSocketReady(call'))
            => call'.ret = GEARMAN_TIMEOUT]_vars

\* C3, amended: gearman_wait returns TIMEOUT when poll reports no ready
\* descriptor; the call that follows a TIMEOUT, with the session left alone
\* in between, polls the same entries again and, no polled socket being
\* ready, returns TIMEOUT, or ERRNO when poll itself fails with an error
\* other than EINTR; it returns SUCCESS only with a socket ready, and never
\* NO_ACTIVE_FDS or MEMORY_ALLOCATION_FAILURE.
C3_Timeout ==
  [][call'.op = "gearman_wait" =>
       /\ PollTimedOut(call') => call'.ret = GEARMAN_TIMEOUT
       /\ (call.op = "gearman_wait" /\ call.ret = GEARMAN_TIMEOUT) =>
            /\ call'.polls >= 1
            /\ call'.x = call.x
            /\ \A k \in 1..call.x :
                 /\ call'.pfds[k].fd = call.pfds[k].fd
                 /\ call'.pfds[k].events = call.pfds[k].events
            /\ call'.ret \in {GEARMAN_TIMEOUT, GEARMAN_ERRNO, GEARMAN_SUCCESS}
            /\ call'.ret = GEARMAN_ERRNO <=> call'.poll[1].ret = -1
            /\ call'.ret = GEARMAN_SUCCESS <=> ~NoSocketReady(call')]_vars

\* C3, reached: a call right after a TIMEOUT returned TIMEOUT again, poll
\* having been interrupted once and then timing out on two entries
C3_Witness ==
  /\ call.op = "gearman_wait"
  /\ call.again
  /\ call.ret = GEARMAN_TIMEOUT
  /\ call.x = 2
  /\ call.polls = 2

\* C4: poll answering -1 with EINTR is called again, on the same entries,
\* and EINTR never ends the call: however many times poll is interrupted
\* before it reports ready descriptors, gearman_wait returns SUCCESS and
\* the connections whose entries came back with events are ready.
C4_EintrRetried ==
  [][call'.op = "gearman_wait" =>
       /\ \A k \in 1..Len(call'.poll) :
            ~(call'.poll[k].ret = -1 /\ call'.poll[k].errno = EINTR)
       /\ \A k \in 1..Len(call'.script) :
            /\ call'.polls = call'.script[k].eintrs + 1
            /\ call'.script[k].ret > 0 =>
                 /\ call'.ret = GEARMAN_SUCCESS
                 /\ call'.pfds = [j \in 1..call'.x |->
                      [WaitCollect(session.con_list, <<>>)[j]
                         EXCEPT !.revents = call'.pfds[j].revents]]
                 /\ \A j \in 1..call'.x :
                      call'.pfds[j].revents # {} =>
                        ConOf(session'.con_list, call'.pfds[j].fd).ready]_vars

\* C4, reached: two EINTR, then one readable descriptor; SUCCESS, and the
\* connection is ready
C4_Witness ==
  /\ call.op = "gearman_wait"
  /\ call.ret = GEARMAN_SUCCESS
  /\ call.polls = 3
  /\ call.x = 1
  /\ POLLIN \in call.pfds[1].revents
  /\ ConOf(session.con_list, call.pfds[1].fd).ready

\* C5: when poll fails with an error number other than EINTR, gearman_wait
\* returns ERRNO and last_errno is the error number poll reported.
C5_LastErrno ==
  (call.op = "gearman_wait" /\ call.ret = GEARMAN_ERRNO)
    => /\ call.poll[1].ret = -1
       /\ call.poll[1].errno # EINTR
       /\ session.last_errno = call.poll[1].errno

\* C6: gearman_wait returns SUCCESS only when it polled at least one entry
\* and at least one polled entry came back with a non-empty revents.
C6_SuccessHasEvents ==
  (call.op = "gearman_wait" /\ call.ret = GEARMAN_SUCCESS)
    => /\ call.x > 0
       /\ call.polls > 0
       /\ \E k \in 1..call.x : call.pfds[k].revents # {}

\* C6, reached: SUCCESS with two entries polled, one of which came back
\* empty
C6_Witness ==
  /\ call.op = "gearman_wait"
  /\ call.ret = GEARMAN_SUCCESS
  /\ call.x = 2
  /\ call.pfds[1].revents = {}
  /\ call.pfds[2].revents # {}

\* the sends and receives of a gearman_echo, in the order they were made
EchoTraffic(trace) == SelectSeq(trace, LAMBDA t : t[1] \in {"send", "recv"})

\* the connection answered the echo with the workload, byte for byte
EchoedBack(a, workload) ==
  /\ a.send = GEARMAN_SUCCESS
  /\ a.recv = GEARMAN_SUCCESS
  /\ a.data = workload

\* C11: once its packet is created, gearman_echo contacts the connections
\* in list order, one at a time, each send followed by the receive on the
\* same connection; the first connection whose send fails, whose receive
\* fails, or whose payload differs from the workload in size or in bytes
\* ends the call with that send or receive result, or ECHO_DATA_CORRUPTION,
\* and no later connection is contacted; SUCCESS is returned when, and only
\* when, every connection of the list returned the workload.
C11_EchoOrder ==
  [][(call'.op = "gearman_echo" /\ call'.create = GEARMAN_SUCCESS) =>
       LET ids == Ids(session.con_list)
           a == call'.answers
           n == Len(a)
           t == EchoTraffic(call'.trace)
           last_sent == n > 0 /\ a[n].send = GEARMAN_SUCCESS
       IN
       /\ n <= Len(ids)
       /\ Len(t) = IF n = 0 \/ last_sent THEN 2 * n ELSE 2 * n - 1
       /\ \A k \in 1..n :
            /\ t[2 * k - 1][1] = "send" /\ t[2 * k - 1][2] = ids[k]
            /\ (k < n \/ last_sent) =>
                 t[2 * k][1] = "recv" /\ t[2 * k][2] = ids[k]
       /\ \A k \in 1..(n - 1) : EchoedBack(a[k], call'.workload)
       /\ IF n > 0 /\ ~EchoedBack(a[n], call'.workload)
            THEN call'.ret =
                   IF a[n].send # GEARMAN_SUCCESS THEN a[n].send
                   ELSE IF a[n].recv # GEARMAN_SUCCESS THEN a[n].recv
                   ELSE GEARMAN_ECHO_DATA_CORRUPTION
            ELSE n = Len(ids) /\ call'.ret = GEARMAN_SUCCESS]_vars

\* C11, reached: the first of two connections echoed the workload, the
\* second sent back as many bytes, one of them different
C11_Witness ==
  /\ call.op = "gearman_echo"
  /\ call.ret = GEARMAN_ECHO_DATA_CORRUPTION
  /\ Len(call.answers) = 2
  /\ call.answers[1].data = call.workload
  /\ Len(call.answers[2].data) = Len(call.workload)
  /\ Len(EchoTraffic(call.trace)) = 4

\* C12: gearman_state_set_error formats "<function>:<message>" into a
\* buffer of GEARMAN_MAX_ERROR_SIZE bytes.  With a log sink registered the
\* formatted message goes to the sink, once, at FATAL verbosity, and
\* last_error is left as it was.  Without one, last_error becomes the
\* formatted message cut to GEARMAN_MAX_ERROR_SIZE - 1 characters: no more
\* than GEARMAN_MAX_ERROR_SIZE bytes are copied and the last one is the NUL,
\* whatever the length of the message.
C12_SetError ==
  [][call'.op = "gearman_state_set_error" =>
       LET formatted == call'.function \o ":" \o call'.message
           bounded == Prefix(formatted, GEARMAN_MAX_ERROR_SIZE - 1)
           copied == call'.copied
       IN IF session.log_fn # NULL
            THEN /\ call'.log = <<[message |-> bounded,
                                   verbose |-> GEARMAN_VERBOSE_FATAL]>>
                 /\ session'.last_error = session.last_error
                 /\ copied = ""
            ELSE /\ call'.log = <<>>
                 /\ session'.last_error = bounded
                 /\ Len(session'.last_error) <= GEARMAN_MAX_ERROR_SIZE - 1
                 /\ Len(copied) = Len(bounded) + 1
                 /\ Len(copied) <= GEARMAN_MAX_ERROR_SIZE
                 /\ SubSeq(copied, Len(copied), Len(copied)) = NUL]_vars

\* C12, reached: without a log sink, a message longer than the buffer was
\* recorded, cut to the bound
C12_Witness ==
  /\ call.op = "gearman_state_set_error"
  /\ call.log = <<>>
  /\ Len(call.message) > GEARMAN_MAX_ERROR_SIZE
  /\ Len(session.last_error) = GEARMAN_MAX_ERROR_SIZE - 1
  /\ Len(call.copied) = GEARMAN_MAX_ERROR_SIZE

\* the string s begins with the string p
BeginsWith(s, p) == Len(s) >= Len(p) /\ SubSeq(s, 1, Len(p)) = p

\* C13 as stated: after gearman_wait returned NO_ACTIVE_FDS, TIMEOUT, ERRNO or
\* MEMORY_ALLOCATION_FAILURE, last_error is the message of that error and
\* begins with "gearman_wait:"; after gearman_echo returned
\* ECHO_DATA_CORRUPTION, last_error is its message and begins with
\* "gearman_echo:"; whatever hooks and options the session has.
C13_LastError ==
  /\ (call.op = "gearman_wait" /\ call.ret # GEARMAN_SUCCESS) =>
       /\ BeginsWith(session.last_error, "gearman_wait:")
       /\ call.ret = GEARMAN_MEMORY_ALLOCATION_FAILURE =>
            session.last_error = "gearman_wait:realloc"
       /\ call.ret = GEARMAN_NO_ACTIVE_FDS =>
            session.last_error = "gearman_wait:no active file descriptors"
       /\ call.ret = GEARMAN_TIMEOUT =>
            session.last_error = "gearman_wait:timeout reached"
       /\ call.ret = GEARMAN_ERRNO =>
            BeginsWith(session.last_error, "gearman_wait:poll:")
  /\ (call.op = "gearman_echo"
        /\ call.ret = GEARMAN_ECHO_DATA_CORRUPTION) =>
       session.last_error = "gearman_echo:corruption during echo"

\* the call is one of the failures that record an error message
RecordsError(c) ==
  \/ c.op = "gearman_wait" /\ c.ret # GEARMAN_SUCCESS
  \/ c.op = "gearman_echo" /\ c.ret = GEARMAN_ECHO_DATA_CORRUPTION

\* the message that failure records
ErrorMessage(c) ==
  IF c.op = "gearman_echo" THEN "gearman_echo:corruption during echo"
  ELSE CASE c.ret = GEARMAN_MEMORY_ALLOCATION_FAILURE -> "gearman_wait:realloc"
         [] c.ret = GEARMAN_NO_ACTIVE_FDS ->
              "gearman_wait:no active file descriptors"
         [] c.ret = GEARMAN_TIMEOUT -> "gearman_wait:timeout reached"
         [] OTHER -> "gearman_wait:poll:" \o c.poll[1].errno

\* C13, amended: when gearman_wait returns NO_ACTIVE_FDS, TIMEOUT, ERRNO or
\* MEMORY_ALLOCATION_FAILURE, or gearman_echo returns ECHO_DATA_CORRUPTION,
\* the message of that error (beginning with "gearman_wait:" respectively
\* "gearman_echo:") is in last_error on return if the session has no log
\* sink; if it has one, the message is delivered to the sink and last_error
\* is left as it was before the call.
C13_LastErrorOrSink ==
  [][RecordsError(call') =>
       /\ BeginsWith(ErrorMessage(call'), "gearman_wait:")
            \/ BeginsWith(ErrorMessage(call'), "gearman_echo:")
       /\ IF session.log_fn = NULL
            THEN /\ session'.last_error = ErrorMessage(call')
                 /\ call'.log = <<>>
            ELSE /\ session'.last_error = session.last_error
                 /\ call'.log = <<[message |-> ErrorMessage(call'),
                                   verbose |-> GEARMAN_VERBOSE_FATAL]>>]_vars

\* C13, reached: after an echo that found a corrupt payload, a session with
\* a log sink still holds the message gearman_wait recorded before the sink
\* was registered
C13_Witness ==
  /\ call.op = "gearman_echo"
  /\ call.ret = GEARMAN_ECHO_DATA_CORRUPTION
  /\ call.log # <<>>
  /\ session.last_error = "gearman_wait:no active file descriptors"

\* C14: gearman_wait calls realloc exactly when pfds_size < con_count.  If
\* realloc fails, the call returns MEMORY_ALLOCATION_FAILURE and pfds and
\* pfds_size are as before.  Past the growth step pfds_size >= con_count, and
\* the entries written are no more than pfds_size.  pfds_size never gets
\* smaller, in gearman_wait or between two calls of it.
C14_PollingBuffer ==
  [][/\ session'.pfds_size >= session.pfds_size
     /\ call'.op = "gearman_wait" =>
          /\ call'.realloc # <<>> <=> session.pfds_size < session.con_count
          /\ call'.ret = GEARMAN_MEMORY_ALLOCATION_FAILURE
               <=> call'.realloc = <<FALSE>>
          /\ call'.realloc = <<FALSE>> =>
               /\ session'.pfds = session.pfds
               /\ session'.pfds_size = session.pfds_size
          /\ call'.realloc = <<TRUE>> =>
               /\ session'.pfds # NULL
               /\ session'.pfds_size = session.con_count
          /\ call'.realloc = <<>> =>
               /\ session'.pfds = session.pfds
               /\ session'.pfds_size = session.pfds_size
          /\ call'.ret # GEARMAN_MEMORY_ALLOCATION_FAILURE =>
               /\ session'.pfds_size >= session'.con_count
               /\ call'.x <= session'.pfds_size
               /\ Len(call'.pfds) = call'.x]_vars

\* C14, reached: a buffer grown for two connections serves, without a
\* realloc, the one connection left
C14_Witness ==
  /\ call.op = "gearman_wait"
  /\ call.realloc = <<>>
  /\ session.pfds_size = 2
  /\ session.con_count = 1
  /\ call.x = 1

\* gearman_state_free has returned with nothing left in the session
FreedAll ==
  /\ Freeing
  /\ call.pc = "return"
  /\ session.con_list = <<>> /\ session.con_count = 0
  /\ session.packet_list = <<>> /\ session.packet_count = 0
  /\ session.pfds = NULL

\* C15: every gearman_state_free that is entered returns, and when it has,
\* no connection and no packet is left in the session; each iteration of
\* gearman_free_all_cons and of gearman_free_all_packets takes the head off
\* its list, so the loops make con_count and packet_count iterations, no
\* more.
C15_StateFreeTerminates ==
  /\ Freeing ~> FreedAll
  /\ [](Freeing =>
          /\ call.cons <= call.con_count
          /\ call.packets <= call.packet_count
          /\ call.cons + Len(session.con_list) = call.con_count
          /\ call.packets + Len(session.packet_list) = call.packet_count)

\* C15, reached: a session of two connections and two packets was freed
C15_Witness ==
  /\ FreedAll
  /\ call.cons = 2
  /\ call.packets = 2

RECURSIVE WaitingPositions(_, _)
WaitingPositions(con_list, i) ==
  IF i > Len(con_list) THEN <<>>
  ELSE IF con_list[i].events = {} THEN WaitingPositions(con_list, i + 1)
  ELSE <<i>> \o WaitingPositions(con_list, i + 1)

\* C17: when gearman_wait hands out the results of poll, the j-th entry
\* polled was built from the descriptor and the mask of the j-th connection
\* with a non-empty mask, and that connection, no other, is given the
\* revents of that entry, whatever the dispatch did to the masks of the
\* connections before it; a connection with an empty mask is given nothing
\* and stays as it was.
C17_ReventsPairing ==
  [][(call'.op = "gearman_wait" /\ call'.ret = GEARMAN_SUCCESS) =>
       LET L == session.con_list
           L2 == session'.con_list
           pf == call'.pfds
           waiting == WaitingPositions(L, 1)
       IN
       /\ Ids(L2) = Ids(L)
       /\ Len(pf) = Len(waiting)
       /\ \A j \in 1..Len(waiting) :
            /\ pf[j].fd = L[waiting[j]].id
            /\ pf[j].events = L[waiting[j]].events
            /\ L2[waiting[j]] =
                 gearman_connection_set_revents(L[waiting[j]],
                                                pf[j].revents).con
       /\ \A k \in 1..Len(L) : L[k].events = {} => L2[k] = L[k]]_vars

\* C17, reached: the first of two polled connections got all the events it
\* waited for, which emptied its mask, and the second got its own, other
\* revents
C17_Witness ==
  /\ call.op = "gearman_wait"
  /\ call.ret = GEARMAN_SUCCESS
  /\ call.x = 2
  /\ call.pfds[1].revents = call.pfds[1].events
  /\ session.con_list[1].events = {}
  /\ call.pfds[2].revents # {}
  /\ call.pfds[2].revents # call.pfds[1].revents
  /\ session.con_list[2].ready

\* C18: a gearman_wait that returns NO_ACTIVE_FDS, TIMEOUT, ERRNO or
\* MEMORY_ALLOCATION_FAILURE leaves the connection list as it was, with the
\* ready flag and the events mask of every connection, and leaves con_count,
\* non_blocking, dont_track_packets and timeout as they were.
C18_WaitFrame ==
  [][(call'.op = "gearman_wait"
        /\ call'.ret \in {GEARMAN_NO_ACTIVE_FDS, GEARMAN_TIMEOUT,
                          GEARMAN_ERRNO, GEARMAN_MEMORY_ALLOCATION_FAILURE})
       => /\ session'.con_list = session.con_list
          /\ session'.con_count = session.con_count
          /\ session'.options = session.options
          /\ session'.timeout = session.timeout]_vars

\* C18, reached: a wait on two armed connections, one of them ready from an
\* earlier wait, ended with ERRNO
C18_Witness ==
  /\ call.op = "gearman_wait"
  /\ call.ret = GEARMAN_ERRNO
  /\ call.x = 2
  /\ \E k \in 1..Len(session.con_list) : session.con_list[k].ready

\* the places of the trace of a gearman_echo where step was made
TracePlaces(trace, step) == {k \in 1..Len(trace) : trace[k][1] = step}

\* C19: a gearman_echo whose request packet was created frees that packet
\* exactly once before it returns, whatever path it returns by, and after
\* every send, so that the session tracks the packets it tracked before; a
\* gearman_echo whose packet creation failed frees no packet, does not push
\* the blocking mode, and leaves the options and the packets of the session
\* alone.
C19_EchoPacket ==
  [][call'.op = "gearman_echo" =>
       LET t == call'.trace
           freed == TracePlaces(t, "free_packet")
       IN
       /\ session'.packet_list = session.packet_list
       /\ session'.packet_count = session.packet_count
       /\ IF call'.create = GEARMAN_SUCCESS
            THEN /\ Cardinality(freed) = 1
                 /\ TracePlaces(t, "create_packet") = {1}
                 /\ \A f \in freed : \A k \in TracePlaces(t, "send") : k < f
                 /\ \A f \in freed :
                      \A k \in TracePlaces(t, "create_packet") : k < f
            ELSE /\ call'.ret = call'.create
                 /\ freed = {}
                 /\ TracePlaces(t, "push_blocking") = {}
                 /\ TracePlaces(t, "send") = {}
                 /\ session'.options = session.options]_vars

\* C19, reached: in a session that tracks its packets, the receive on the
\* second of two connections failed, and the request was freed
C19_Witness ==
  /\ call.op = "gearman_echo"
  /\ call.ret = GEARMAN_TIMEOUT
  /\ Len(call.answers) = 2
  /\ ~session.options.dont_track_packets
  /\ Cardinality(TracePlaces(call.trace, "free_packet")) = 1
  /\ session.packet_list = <<>>

\* what gearman_state_clone gives when no step of it fails: the options and
\* the timeout of the source, as many connections, and no packet
ClonedFrom(destination, source) ==
  /\ destination.options.non_blocking = source.options.non_blocking
  /\ destination.options.dont_track_packets
       = source.options.dont_track_packets
  /\ destination.timeout = source.timeout
  /\ destination.con_count = source.con_count
  /\ Len(destination.con_list) = source.con_count
  /\ destination.packet_list = <<>>
  /\ destination.packet_count = 0

\* what gearman_state_clone gives when the clone of a connection fails: NULL,
\* the destination having been freed with the connections it had
CloneGivenUp(c, destination) ==
  /\ destination = <<>>
  /\ Len(c.freed) = 1
  /\ c.freed[1].con_list = <<>>
  /\ c.freed[1].con_count = 0

\* C20 as stated: gearman_state_clone of a session gives a destination with
\* the non_blocking, dont_track_packets and timeout of the source, as many
\* connections as the source, and no packets; unless the clone of a
\* connection fails, and then the destination is freed, with the connections
\* cloned so far, and NULL is returned.  The source is not modified.
C20_Original ==
  [][call'.op = "gearman_state_clone" =>
       /\ session' = session
       /\ IF call'.fail_at = 0
            THEN dst' # <<>> /\ ClonedFrom(dst'[1], session)
            ELSE CloneGivenUp(call', dst')]_vars

\* C20, amended: as stated, when the destination is the caller's or could
\* be allocated; when gearman_state_create cannot allocate the destination,
\* gearman_state_clone returns NULL at once, and there is nothing to free.
C20_Clone ==
  [][call'.op = "gearman_state_clone" =>
       /\ session' = session
       /\ IF call'.alloc = "malloc_fails"
            THEN dst' = <<>> /\ call'.freed = <<>>
          ELSE IF call'.fail_at = 0
            THEN /\ dst' # <<>> /\ ClonedFrom(dst'[1], session)
                 /\ dst'[1].options.allocated <=> call'.alloc = "malloc"
                 /\ call'.freed = <<>>
            ELSE CloneGivenUp(call', dst')]_vars

\* C20, reached: the clone of a non-blocking session with a timeout, two
\* connections and a packet
C20_Witness ==
  /\ call.op = "gearman_state_clone"
  /\ call.alloc = "malloc"
  /\ dst # <<>>
  /\ dst[1].options.non_blocking
  /\ dst[1].timeout = 50
  /\ dst[1].con_count = 2
  /\ session.packet_count > 0

====
